---- MODULE Spec2Model ----
(***************************************************************************)
(* Model of src/src/index.ts: StatelessRpcClient.request and the helpers   *)
(* it drives (verifyStatelessProof, sendToProver, verifyAttestations,      *)
(* hashContent, verifyAttestation, verifySignature, publicKeyFromIdentity) *)
(* together with createStatelessTransport.                                 *)
(*                                                                         *)
(* External collaborators are modelled by their observable outcomes:       *)
(*   fetch / sendJsonRpcRequest : the reply is chosen nondeterministically *)
(*   sha256 over JSON text      : an injective digest constructor          *)
(*   nacl.sign.detached.verify  : true iff the signature is 64 bytes, was  *)
(*                                made with the key and covers the message *)
(*   sshpk.parseKey             : throws, or yields a key with a type      *)
(*   @ethereumjs/trie           : a proof carries the root it hashes to    *)
(*                                and the set of keys it proves            *)
(***************************************************************************)
EXTENDS Integers, Sequences, FiniteSets, TLC

VARIABLES
    config,            \* the StatelessClientConfig given to createStatelessTransport
    client,            \* the StatelessRpcClient fields (index.ts 49-52)
    method,            \* request(): method
    params,            \* request(): params[0], the call object
    pc,                \* position of the request() call
    proverCalls,       \* requests POSTed to proverUrl, in order
    blockNumber,       \* verifyStatelessProof: latestBlockNumber
    stateRoot,         \* verifyStatelessProof: stateRoot
    accessList,        \* verifyStatelessProof: accessList
    proof,             \* verifyStatelessProof: the eth_getProof result
    keyIdx,            \* verifyStatelessProof: storage loop index i
    primarySent,       \* number of requests POSTed to rpcUrl
    response,          \* attestedResponse (its attestations are mutated in place)
    contentHashes,     \* verifyAttestations: contentHashes
    idx,               \* verifyAttestations: loop index i
    validAttestations, \* verifyAttestations: validAttestations
    lookups,           \* positions for which publicKeyFromIdentity was called
    lastKey,           \* what the latest key lookup gave
    verdicts,          \* how each processed attestation left the loop body
    isValid,           \* request(): isValid, once verifyAttestations returned
    outcome,           \* how the call ended, and what it released
    cur,               \* which request() call is running
    other              \* the locals of a second request() call, suspended

vars == <<config, client, method, params, pc, proverCalls, blockNumber, stateRoot,
          accessList, proof, keyIdx, primarySent, response, contentHashes, idx,
          validAttestations, lookups, lastKey, verdicts, isValid, outcome,
          cur, other>>

(***************************************************************************)
(* Bounds of the model.                                                    *)
(***************************************************************************)
MaxAtt == 3          \* longest attestations array of a response
MaxThreshold == 2    \* largest configured minimumRequiredAttestations
MaxBlock == 2        \* block numbers the prover may report
MaxKeys == 2         \* storage keys of an access-list entry

(***************************************************************************)
(* JSON values.  undefined is the value of a missing field.                *)
(***************************************************************************)
JUndefined == [kind |-> "undefined", text |-> "", items |-> <<>>]
JNull == [kind |-> "null", text |-> "", items |-> <<>>]
JValue(t) == [kind |-> "value", text |-> t, items |-> <<>>]
JArray(s) == [kind |-> "array", text |-> "", items |-> s]

\* JSON.stringify(v): undefined has no JSON text, JSON.stringify returns
\* undefined for it.
NoText == "<undefined>"
RECURSIVE JSONstringify(_), JoinItems(_)
JSONstringify(v) ==
    CASE v.kind = "undefined" -> NoText
      [] v.kind = "null" -> "null"
      [] v.kind = "value" -> v.text
      [] OTHER -> "[" \o JoinItems(v.items) \o "]"

\* the texts of the items of an array, separated by commas; an undefined
\* item is written null
JoinItems(s) ==
    IF s = <<>> THEN ""
    ELSE LET first == IF s[1].kind = "undefined" THEN "null"
                      ELSE JSONstringify(s[1])
         IN IF Len(s) = 1 THEN first
            ELSE first \o "," \o JoinItems(Tail(s))

\* crypto.createHash("sha256").update(s).digest("hex")
sha256hex(s) == <<"sha256", s>>

\* a ?? b
Coalesce(a, b) == IF a.kind \in {"undefined", "null"} THEN b ELSE a

\* truthiness of response.error (an object when present)
Truthy(v) == v.kind \notin {"undefined", "null"}

(***************************************************************************)
(* Keys, digests and signatures.                                           *)
(***************************************************************************)
\* The key pair an identity owns is named after the identity; "X" is a
\* signer outside every allow-list.

\* A missing msg / signature / array element reads as undefined.
NoMsg == <<"undefined", "">>
NoSig == [kind |-> "undefined", by |-> "", over |-> NoMsg]
\* A hex string that does not decode to 64 bytes.
ShortSig == [kind |-> "short", by |-> "", over |-> NoMsg]
\* The 64-byte ed25519 signature of message d made with the key of signer k.
Sign(k, d) == [kind |-> "sig", by |-> k, over |-> d]

\* An optional array field of an attestation (msgs, signatures).
NoList == [present |-> FALSE, list |-> <<>>]
List(s) == [present |-> TRUE, list |-> s]

\* variant: an index past the end reads the last signature
SigAtClamped(s, index) ==
    IF index \in 1..Len(s) THEN s[index]
    ELSE IF Len(s) > 0 THEN s[Len(s)] ELSE NoSig

\* array[index] in JavaScript, with 1-based index here: undefined when the
\* index is past the end.
SigAt(s, index) == IF index \in 1..Len(s) THEN s[index] ELSE NoSig

Includes(s, x) == \E j \in 1..Len(s) : s[j] = x

\* hashContent (index.ts 155-168).  JSON.stringify(undefined) is undefined
\* and hash.update(undefined) throws a TypeError.
hashContentThrows(content) ==
    IF content.kind = "array"
    THEN \E k \in 1..Len(content.items) :
            JSONstringify(content.items[k]) = NoText
    ELSE JSONstringify(content) = NoText

sha256hexAll(items) ==
    [k \in 1..Len(items) |-> sha256hex(JSONstringify(items[k]))]

hashContent(content) ==
    IF content.kind = "array"
    THEN sha256hexAll(content.items)
    ELSE <<sha256hex(JSONstringify(content))>>

\* verifySignature (index.ts 211-231).  Buffer.from(undefined, "hex") throws
\* and nacl throws "bad signature size" unless the signature is 64 bytes;
\* both are caught and reported as false.  hashAlgo is not used.
verifySignature(msgHash, signature, publicKey) ==
    /\ signature.kind = "sig"
    /\ signature.by = publicKey
    /\ signature.over = msgHash

\* index.ts 175-179: the condition that selects the msgs/signatures branch
IsBatch(attestation) ==
    /\ attestation.msgs.present
    /\ Len(attestation.msgs.list) > 0
    /\ attestation.signatures.present

\* index.ts 196: the condition that selects the msg/signature branch
IsSingle(attestation) ==
    /\ ~IsBatch(attestation)
    /\ attestation.msg # NoMsg
    /\ attestation.signature.kind # "undefined"

\* index.ts 180-182
isSubset(attestation, hashes) ==
    \A k \in 1..Len(hashes) : Includes(attestation.msgs.list, hashes[k])

\* variant: some() where every() is meant
SomePairVerifies(attestation, publicKey) ==
    \E index \in 1..Len(attestation.msgs.list) :
        verifySignature(attestation.msgs.list[index],
                        SigAt(attestation.signatures.list, index),
                        publicKey)

\* index.ts 187-195
AllPairsVerify(attestation, publicKey) ==
    \A index \in 1..Len(attestation.msgs.list) :
        verifySignature(attestation.msgs.list[index],
                        SigAt(attestation.signatures.list, index),
                        publicKey)

\* variant: single mode does not look msg up in the content digests
verifyAttestationNoMembership(attestation, publicKey, hashes) ==
    IF IsBatch(attestation)
    THEN IF ~isSubset(attestation, hashes)
         THEN FALSE
         ELSE AllPairsVerify(attestation, publicKey)
    ELSE IF IsSingle(attestation)
         THEN verifySignature(attestation.msg, attestation.signature,
                              publicKey)
         ELSE FALSE

\* verifyAttestation (index.ts 170-209)
verifyAttestation(attestation, publicKey, hashes) ==
    IF IsBatch(attestation)
    THEN IF ~isSubset(attestation, hashes)
         THEN FALSE
         ELSE AllPairsVerify(attestation, publicKey)
    ELSE IF IsSingle(attestation)
         THEN /\ Includes(hashes, attestation.msg)
              /\ verifySignature(attestation.msg, attestation.signature,
                                 publicKey)
         ELSE FALSE

(***************************************************************************)
(* Configuration and client construction.                                  *)
(***************************************************************************)
NullUrl == "null"
ProverUrl == "https://prover"
RpcUrl == "https://rpc"

\* index.ts 369: minimumRequiredAttestations = 1
DefaultMinimum == 1

IdentityLists == {<<"A", "B">>, <<"A", "B", "C">>}

\* A StatelessClientConfig (index.ts 358-363); the optional fields carry a
\* presence flag, and a missing minimumRequiredAttestations is written 0.
Configs ==
    {[rpcUrl |-> RpcUrl, identities |-> ids, hasMinimum |-> m > 0,
      minimumRequiredAttestations |-> m, hasProver |-> hp,
      proverUrl |-> IF hp THEN ProverUrl ELSE NullUrl] :
        ids \in IdentityLists, m \in 0..MaxThreshold, hp \in BOOLEAN}

\* createStatelessTransport (index.ts 365-378) with the constructor
\* (index.ts 54-64)
createStatelessTransport(cfg) ==
    [rpcUrl |-> cfg.rpcUrl,
     identities |-> cfg.identities,
     minimumRequiredAttestations |->
        IF cfg.hasMinimum THEN cfg.minimumRequiredAttestations
        ELSE DefaultMinimum,
     proverUrl |-> IF cfg.hasProver THEN cfg.proverUrl ELSE NullUrl]

(***************************************************************************)
(* Attestations and responses.                                             *)
(***************************************************************************)
\* identity "" stands for a missing (falsy) identity field
Single(id, m, s) ==
    [identity |-> id, msg |-> m, signature |-> s,
     msgs |-> NoList, signatures |-> NoList]
Batch(id, ms, ss) ==
    [identity |-> id, msg |-> NoMsg, signature |-> NoSig,
     msgs |-> List(ms), signatures |-> List(ss)]

\* a digest that is the hash of no content of the model
Foreign == sha256hex("zz")

SeqsUpTo(S, n) == UNION {[1..k -> S] : k \in 0..n}

\* <<result, error>> pairs an endpoint may send
Contents ==
    {<<JValue("v1"), JUndefined>>,
     <<JArray(<<JValue("v1"), JValue("v2")>>), JUndefined>>,
     <<JArray(<<>>), JUndefined>>,
     <<JArray(<<JArray(<<JValue("v1")>>), JArray(<<JValue("v2")>>)>>),
       JUndefined>>,
     <<JUndefined, JValue("e1")>>,
     <<JNull, JValue("e1")>>,
     <<JValue("v1"), JValue("e1")>>,
     <<JNull, JUndefined>>,
     <<JUndefined, JUndefined>>}

MkResponse(c, atts) ==
    [result |-> c[1], error |-> c[2], attestations |-> atts]

\* the first content digest of a response content, Foreign when it has none
FirstDigest(c) ==
    LET content == Coalesce(c[1], c[2])
    IN IF hashContentThrows(content) \/ hashContent(content) = <<>>
       THEN Foreign
       ELSE hashContent(content)[1]

DigestsOf(c) ==
    LET content == Coalesce(c[1], c[2])
    IN IF hashContentThrows(content) THEN <<>> ELSE hashContent(content)

\* The attestations the arrays of the attestation-pass specification are
\* made of, for response content c: valid(A), valid(B), invalid-signature(C),
\* unauthorized(X), and one without identity that B signed.
CoreAtts(c) ==
    LET d == FirstDigest(c)
    IN {Single("A", d, Sign("A", d)),
        Single("B", d, Sign("B", d)),
        Single("C", d, Sign("X", d)),
        Single("X", d, Sign("X", d)),
        Single("", d, Sign("B", d))}

\* Shapes a single attestation naming identity A can take for content c.
RichDigests(c) ==
    {DigestsOf(c)[k] : k \in 1..Len(DigestsOf(c))} \cup {Foreign}

RichSingles(c) ==
    {Single("A", m, s) :
        m \in RichDigests(c) \cup {NoMsg},
        s \in {Sign("A", FirstDigest(c)), Sign("A", Foreign),
               Sign("X", FirstDigest(c)), ShortSig, NoSig}}

\* signature arrays for msgs ms: one entry short, equal length, one entry
\* long; every entry signed by A or by X over the message at its position
SigSeqs(ms) ==
    UNION {
        {[j \in 1..n |->
            Sign(who[j], IF j <= Len(ms) THEN ms[j] ELSE Foreign)] :
                who \in [1..n -> {"A", "X"}]} :
        n \in {k \in (Len(ms) - 1)..(Len(ms) + 1) : k >= 0}}

RichBatches(c) ==
    UNION {{Batch("A", ms, ss) : ss \in SigSeqs(ms)} :
            ms \in SeqsUpTo(RichDigests(c), Len(DigestsOf(c)) + 1)}

\* msgs without signatures, and both field pairs at once
RichMixed(c) ==
    LET d == FirstDigest(c)
    IN {[Batch("A", <<d>>, <<>>) EXCEPT !.signatures = NoList],
        [Batch("A", <<>>, <<>>) EXCEPT
            !.msg = d, !.signature = Sign("A", d)],
        [Batch("A", <<Foreign>>, <<Sign("A", Foreign)>>) EXCEPT
            !.msg = d, !.signature = Sign("A", d)]}

RichAtts(c) == RichSingles(c) \cup RichBatches(c) \cup RichMixed(c)

\* Contents the longer attestation arrays come with.
ListContents == {<<JValue("v1"), JUndefined>>}

\* Responses of the attestation-pass specification: arrays of up to MaxAtt
\* core attestations, and arrays holding one attestation of any shape.
VerifyResponses ==
    UNION {{MkResponse(c, List(atts)) :
                atts \in SeqsUpTo(CoreAtts(c), MaxAtt)} : c \in ListContents}
    \cup
    UNION {{MkResponse(c, List(<<a>>)) : a \in RichAtts(c)} : c \in Contents}

\* Responses of the request specification: every content, with up to
\* MaxThreshold attestations that are valid(A) or invalid-signature(B), or
\* with no attestations field at all.
FlowAtts(c) ==
    LET d == FirstDigest(c)
    IN {Single("A", d, Sign("A", d)), Single("B", d, Sign("X", d))}

FlowResponses ==
    UNION {{MkResponse(c, List(atts)) :
                atts \in SeqsUpTo(FlowAtts(c), MaxThreshold)} : c \in Contents}
    \cup {MkResponse(c, NoList) : c \in Contents}

NoResponse == MkResponse(<<JUndefined, JUndefined>>, NoList)

(***************************************************************************)
(* Prover data.                                                            *)
(***************************************************************************)
Methods == {"eth_call", "eth_getLogs"}

\* params[0] of the request: a call object; "undefined" marks a property
\* whose value is undefined
CallObjects == {[to |-> "a1", from |-> "undefined", data |-> "d1"]}

\* extractDefinedProperties (index.ts 340-346)
extractDefinedProperties(obj) ==
    [f \in {g \in DOMAIN obj : obj[g] # "undefined"} |-> obj[f]]

\* storage keys are numbered; an entry lists keys 1..n
KeyLists == {[j \in 1..n |-> j] : n \in 0..MaxKeys}

AccessLists ==
    {<<>>}
    \cup {<<[address |-> "a1", storageKeys |-> ks]>> : ks \in KeyLists}
    \cup {<<[address |-> "a1", storageKeys |-> ks],
            [address |-> "a2", storageKeys |-> <<1>>]>> : ks \in KeyLists}

StateRoots == {"r1", "r2"}

\* A list of proof nodes: the root hash its top node has, and the keys whose
\* leaf it contains.  Nodes are stored under their hash, so a lookup from a
\* trie root only sees the nodes of proofs that hash to that root.
AccountProofs ==
    {[root |-> "r1", keys |-> {"a1"}], [root |-> "r1", keys |-> {}],
     [root |-> "r2", keys |-> {"a1"}], [root |-> "r1", keys |-> {"a2"}]}

StorageProofsAt(j) ==
    {[root |-> "s1", keys |-> {j}], [root |-> "s1", keys |-> {}],
     [root |-> "s2", keys |-> {j}], [root |-> "s1", keys |-> 1..MaxKeys]}

StorageProofLists ==
    UNION {{sp \in [1..n -> UNION {StorageProofsAt(j) : j \in 1..n}] :
                \A j \in 1..n : sp[j] \in StorageProofsAt(j)} :
            n \in 0..MaxKeys}

ProofReplies ==
    [accountProof : AccountProofs, storageProof : StorageProofLists,
     storageHash : {"s1"}]

NoProof == [accountProof |-> [root |-> "", keys |-> {}],
            storageProof |-> <<>>, storageHash |-> ""]
NoRoot == ""

\* trie.get after updateFromProof (index.ts 283-289, 296-305): "value" when
\* some loaded proof hashes to the trie's root and holds the key, "null"
\* when a loaded proof hashes to the root and none holds the key.  When no
\* loaded node is at the root the walk meets a missing node: get throws
\* with throwIfMissing and gives null without.
MissingNodeMessage == "Missing node in DB"
TrieGet(root, loaded, key, throwIfMissing) ==
    IF \E k \in 1..Len(loaded) : loaded[k].root = root /\ key \in loaded[k].keys
    THEN "value"
    ELSE IF \E k \in 1..Len(loaded) : loaded[k].root = root THEN "null"
    ELSE IF throwIfMissing THEN MissingNodeMessage
    ELSE "null"

\* variant: the account lookup result is not checked
AccountMissingIgnored(val) == FALSE

\* index.ts 291: !val
AccountMissing(val) == val = "null"

\* variant: the storage loop stops after the first storage key
StorageLoopFirstOnly(i, keys) == i < Len(keys) /\ i < 1

\* index.ts 298: i < accessList[0].storageKeys.length
StorageLoopContinues(i, keys) == i < Len(keys)

(***************************************************************************)
(* Outcomes of a request() call.                                           *)
(***************************************************************************)
Pending == [kind |-> "pending", value |-> JUndefined, origin |-> "none",
            error |-> ""]
Thrown(e) == [kind |-> "Error", value |-> JUndefined, origin |-> "none",
              error |-> e]
ThrownRpcError(from, obj) ==
    [kind |-> "RpcError", value |-> obj, origin |-> from, error |-> ""]
Returned(v) ==
    [kind |-> "returned", value |-> v, origin |-> "primary", error |-> ""]

ThresholdMessage == "Request did not meet the attestation threshold"
\* index.ts 275: accessList[0] is undefined and its address is read
NoFirstEntryMessage == "TypeError: accessList[0] is undefined"
ProverError == JValue("pe1")

(***************************************************************************)
(* The state machine of one request() call.                                *)
(***************************************************************************)
\* no key lookup has ended yet
NoKey == [fetch |-> "none", status |-> 0, parses |-> FALSE, type |-> "",
          A |-> ""]

\* no second call is in flight
NoCall == [pc |-> "none"]

\* the client after construction and one call about to start
InitCallWith(cfgs, methods) ==
    /\ config \in cfgs
    /\ client = createStatelessTransport(config)
    /\ method \in methods
    /\ params \in CallObjects
    /\ pc = "start"
    /\ proverCalls = <<>>
    /\ blockNumber = 0
    /\ stateRoot = NoRoot
    /\ accessList = <<>>
    /\ proof = NoProof
    /\ keyIdx = 0
    /\ primarySent = 0
    /\ response = NoResponse
    /\ contentHashes = <<>>
    /\ idx = 0
    /\ validAttestations = <<>>
    /\ lookups = <<>>
    /\ lastKey = NoKey
    /\ verdicts = <<>>
    /\ isValid = FALSE
    /\ outcome = Pending

InitWith(cfgs, methods) ==
    /\ InitCallWith(cfgs, methods)
    /\ cur = 1
    /\ other = NoCall

Init == InitWith(Configs, Methods)

\* the locals of verifyStatelessProof go out of scope when it returns or
\* throws
DropProofLocals ==
    /\ blockNumber' = 0
    /\ stateRoot' = NoRoot
    /\ accessList' = <<>>
    /\ proof' = NoProof
    /\ keyIdx' = 0

KeepProofLocals ==
    UNCHANGED <<blockNumber, stateRoot, accessList, proof, keyIdx>>

KeepAttestationState ==
    UNCHANGED <<response, contentHashes, idx, validAttestations, lookups,
                lastKey, verdicts, isValid>>

\* sendToProver (index.ts 313-323): POST one request to proverUrl
SendToProver(m, ps) ==
    proverCalls' = Append(proverCalls, [method |-> m, params |-> ps])

\* index.ts 77-82: POST the request to rpcUrl
SendPrimary ==
    /\ primarySent' = primarySent + 1
    /\ pc' = "await_response"

\* the request ends by throwing
Fail(o) ==
    /\ outcome' = o
    /\ pc' = "done"

\* variant: the method is not looked at
UsesProverAnyMethod == client.proverUrl # NullUrl

\* index.ts 73: light-client mode applies
UsesProver == client.proverUrl # NullUrl /\ method = "eth_call"

\* request() is called (index.ts 66-82, 244-251): either the proof
\* verification starts with eth_blockNumber, or the request goes to rpcUrl
Request ==
    /\ pc = "start"
    /\ IF UsesProver
       THEN /\ SendToProver("eth_blockNumber", <<>>)
            /\ pc' = "p_blockNumber"
            /\ UNCHANGED primarySent
       ELSE /\ SendPrimary
            /\ UNCHANGED proverCalls
    /\ KeepProofLocals /\ KeepAttestationState
    /\ UNCHANGED <<cur, other, config, client, method, params, outcome>>

ProverWaits == {"p_blockNumber", "p_getBlock", "p_accessList", "p_getProof"}

\* the awaits of the trie checks (index.ts 284, 289, 302, 303)
TrieWaits == {"t_accountLoad", "t_accountGet", "t_storageLoad",
              "t_storageGet"}

\* A prover call fails (index.ts 397, 405-409, 325-335): fetch rejects, an
\* HTTP error, a body that is no JSON, a batch reply, or a JSON-RPC error,
\* which sendToProver throws as RpcError; a null body where response.error
\* is read (index.ts 329), or a null result where an object is destructured
\* (index.ts 252, 267, 270), throws a TypeError
ProverFails ==
    /\ pc \in ProverWaits
    /\ \E o \in {Thrown("fetch failed"), Thrown("HTTP error"),
                 Thrown("SyntaxError"), Thrown("Unexpected batch response"),
                 ThrownRpcError("prover", ProverError), Thrown("TypeError")} :
        Fail(o)
    /\ DropProofLocals /\ KeepAttestationState
    /\ UNCHANGED <<cur, other, config, client, method, params, proverCalls,
                   primarySent>>

\* eth_blockNumber returns (index.ts 251-255)
BlockNumberReturnsIn(numbers) ==
    /\ pc = "p_blockNumber"
    /\ \E bn \in numbers :
        /\ blockNumber' = bn
        /\ SendToProver("eth_getBlockByNumber", <<bn, FALSE>>)
    /\ pc' = "p_getBlock"
    /\ KeepAttestationState
    /\ UNCHANGED <<cur, other, config, client, method, params, stateRoot,
                   accessList, proof, keyIdx, primarySent, outcome>>

BlockNumberReturns == BlockNumberReturnsIn(1..MaxBlock)

\* eth_getBlockByNumber returns (index.ts 252-268)
BlockReturnsIn(roots) ==
    /\ pc = "p_getBlock"
    /\ \E r \in roots : stateRoot' = r
    /\ SendToProver("eth_createAccessList",
                    <<extractDefinedProperties(params)>>)
    /\ pc' = "p_accessList"
    /\ KeepAttestationState
    /\ UNCHANGED <<cur, other, config, client, method, params, blockNumber,
                   accessList, proof, keyIdx, primarySent, outcome>>

BlockReturns == BlockReturnsIn(StateRoots)

\* variant: the proof is asked for the block after the one fetched
GetProofParamsNextBlock(al, bn) ==
    <<al[1].address, al[1].storageKeys, bn + 1>>

\* variant: the proof is asked for the last entry of the access list
GetProofParamsLastEntry(al, bn) ==
    <<al[Len(al)].address, al[Len(al)].storageKeys, bn>>

\* index.ts 274-278: the params of eth_getProof
GetProofParams(al, bn) == <<al[1].address, al[1].storageKeys, bn>>

\* variant: with no entry to prove, the request goes on to rpcUrl
AccessListReturnsSkipsEmpty(lists) ==
    /\ pc = "p_accessList"
    /\ \E al \in lists :
        IF al = <<>>
        THEN /\ SendPrimary
             /\ DropProofLocals
             /\ UNCHANGED <<proverCalls, outcome>>
        ELSE /\ accessList' = al
             /\ SendToProver("eth_getProof", GetProofParams(al, blockNumber))
             /\ pc' = "p_getProof"
             /\ UNCHANGED <<blockNumber, stateRoot, proof, keyIdx, outcome,
                            primarySent>>
    /\ KeepAttestationState
    /\ UNCHANGED <<cur, other, config, client, method, params>>

\* eth_createAccessList returns (index.ts 267-278); accessList[0] of an
\* empty list is undefined and reading its address throws a TypeError
AccessListReturnsIn(lists) ==
    /\ pc = "p_accessList"
    /\ \E al \in lists :
        IF al = <<>>
        THEN /\ Fail(Thrown(NoFirstEntryMessage))
             /\ DropProofLocals
             /\ UNCHANGED proverCalls
        ELSE /\ accessList' = al
             /\ SendToProver("eth_getProof", GetProofParams(al, blockNumber))
             /\ pc' = "p_getProof"
             /\ UNCHANGED <<blockNumber, stateRoot, proof, keyIdx, outcome>>
    /\ KeepAttestationState
    /\ UNCHANGED <<cur, other, config, client, method, params, primarySent>>

AccessListReturns == AccessListReturnsIn(AccessLists)

\* eth_getProof returns and the state trie is given the account proof
\* (index.ts 270-286)
ProofReturnsIn(replies) ==
    /\ pc = "p_getProof"
    /\ \E pr \in replies : proof' = pr
    /\ pc' = "t_accountLoad"
    /\ KeepAttestationState
    /\ UNCHANGED <<cur, other, config, client, method, params, proverCalls,
                   blockNumber, stateRoot, accessList, keyIdx, primarySent,
                   outcome>>

ProofReturns == ProofReturnsIn(ProofReplies)

\* the await of trie.updateFromProof ends and trie.get is called
\* (index.ts 284-289)
AccountProofLoaded ==
    /\ pc = "t_accountLoad"
    /\ pc' = "t_accountGet"
    /\ KeepProofLocals /\ KeepAttestationState
    /\ UNCHANGED <<cur, other, config, client, method, params, proverCalls,
                   primarySent, outcome>>

\* The head of the storage loop with index i (index.ts 298-302).  Past the
\* last storage key verifyStatelessProof returns and the request goes to
\* rpcUrl (index.ts 77-82); storageProof[i] of a shorter array is undefined
\* and reading its proof throws a TypeError; otherwise the storage trie is
\* given storageProof[i].proof.
StorageLoopHead(i) ==
    IF ~StorageLoopContinues(i, accessList[1].storageKeys)
    THEN /\ SendPrimary
         /\ DropProofLocals
         /\ UNCHANGED outcome
    ELSE IF i + 1 > Len(proof.storageProof)
    THEN /\ Fail(Thrown("TypeError"))
         /\ DropProofLocals
         /\ UNCHANGED primarySent
    ELSE /\ keyIdx' = i
         /\ pc' = "t_storageLoad"
         /\ UNCHANGED <<blockNumber, stateRoot, accessList, proof,
                        primarySent, outcome>>

\* the await of trie.get(address, true) ends (index.ts 289-298)
AccountGetReturns ==
    /\ pc = "t_accountGet"
    /\ LET val == TrieGet(stateRoot, <<proof.accountProof>>,
                          accessList[1].address, TRUE)
       IN IF val = MissingNodeMessage
          THEN Fail(Thrown(val)) /\ DropProofLocals /\ UNCHANGED primarySent
          ELSE IF AccountMissing(val)
          THEN /\ Fail(Thrown("Account not found in state trie"))
               /\ DropProofLocals
               /\ UNCHANGED primarySent
          ELSE StorageLoopHead(0)
    /\ KeepAttestationState
    /\ UNCHANGED <<cur, other, config, client, method, params, proverCalls>>

\* the await of storageTrie.updateFromProof ends and storageTrie.get is
\* called (index.ts 302-305)
StorageProofLoaded ==
    /\ pc = "t_storageLoad"
    /\ pc' = "t_storageGet"
    /\ KeepProofLocals /\ KeepAttestationState
    /\ UNCHANGED <<cur, other, config, client, method, params, proverCalls,
                   primarySent, outcome>>

\* the await of storageTrie.get ends (index.ts 303-309, 298); the storage
\* trie holds the nodes of storageProof[0..i]
StorageGetReturns ==
    /\ pc = "t_storageGet"
    /\ LET storageVal ==
            TrieGet(proof.storageHash,
                    SubSeq(proof.storageProof, 1, keyIdx + 1),
                    accessList[1].storageKeys[keyIdx + 1], FALSE)
       IN IF storageVal # "value"
          THEN /\ Fail(Thrown("Storage value not found"))
               /\ DropProofLocals
               /\ UNCHANGED primarySent
          ELSE StorageLoopHead(keyIdx + 1)
    /\ KeepAttestationState
    /\ UNCHANGED <<cur, other, config, client, method, params, proverCalls>>

\* the request to rpcUrl fails (index.ts 397, 405-409, 84-86): fetch
\* rejects, an HTTP error, a body that is no JSON, or a batch reply
PrimaryFails ==
    /\ pc = "await_response"
    /\ \E o \in {Thrown("fetch failed"), Thrown("HTTP error"),
                 Thrown("SyntaxError"), Thrown("Unexpected batch response")} :
        Fail(o)
    /\ KeepProofLocals /\ KeepAttestationState
    /\ UNCHANGED <<cur, other, config, client, method, params, proverCalls, primarySent>>

\* the response arrives and verifyAttestations starts (index.ts 88-117):
\* hashContent throws on content without JSON text (index.ts 113) before
\* anything is assigned; with the content hashed, reading the entries of a
\* missing attestations field throws (index.ts 117)
Receive(resp) ==
    /\ pc = "await_response"
    /\ response' = resp
    /\ LET content == Coalesce(resp.result, resp.error)
       IN IF hashContentThrows(content)
          THEN /\ Fail(Thrown("TypeError"))
               /\ UNCHANGED contentHashes
          ELSE IF ~resp.attestations.present
          THEN /\ contentHashes' = hashContent(content)
               /\ Fail(Thrown("TypeError"))
          ELSE /\ contentHashes' = hashContent(content)
               /\ pc' = "loop"
               /\ UNCHANGED outcome
    /\ KeepProofLocals
    /\ UNCHANGED <<cur, other, config, client, method, params, proverCalls, primarySent,
                   idx, validAttestations, lookups, lastKey, verdicts,
                   isValid>>

(***************************************************************************)
(* verifyAttestations: the loop over response.attestations.                *)
(***************************************************************************)
\* variant: the fallback is the first identity whatever the position
IdentityAtFirst(ids, i) == IF Len(ids) > 0 THEN ids[1] ELSE ""

\* this.identities[i] (0-based i); undefined, written "", past the end
IdentityAt(ids, i) == IF i + 1 \in 1..Len(ids) THEN ids[i + 1] ELSE ""

\* index.ts 118-120: the positional fallback for a missing identity
WithIdentity(attestation, ids, i) ==
    IF attestation.identity = ""
    THEN [attestation EXCEPT !.identity = IdentityAt(ids, i)]
    ELSE attestation

\* variant: every attestation that names an identity is let through
IsAllowedAnyNamed(ids, attestation) == attestation.identity # ""

\* index.ts 122: this.identities.includes(attestation.identity)
IsAllowed(ids, attestation) == Includes(ids, attestation.identity)

\* What GET <identity>/.well-known/stateless-key can give: the fetch
\* rejects, a status other than 200, or 200 with a text that does not parse,
\* parses to a key of another type, or parses to the identity's ed25519 key
KeyReplies(identity) ==
    {[fetch |-> "rejects", status |-> 0, parses |-> FALSE, type |-> "",
      A |-> ""],
     [fetch |-> "resolves", status |-> 404, parses |-> FALSE, type |-> "",
      A |-> ""],
     [fetch |-> "resolves", status |-> 200, parses |-> FALSE, type |-> "",
      A |-> ""],
     [fetch |-> "resolves", status |-> 200, parses |-> TRUE, type |-> "rsa",
      A |-> ""],
     [fetch |-> "resolves", status |-> 200, parses |-> TRUE,
      type |-> "ed25519", A |-> identity]}

\* publicKeyFromIdentity throws (index.ts 233-242)
publicKeyFromIdentityThrows(reply) ==
    reply.fetch = "rejects" \/ reply.status # 200

\* sshpk.parseKey(sshPublicKey, "ssh") throws (index.ts 133); the call is
\* outside the try block of index.ts 127-131
parseKeyThrows(reply) == ~reply.parses

KeyTypeMessage == "The provided key is not an ed25519 key"

\* variant: the key type is not looked at
KeyTypeIgnored(reply) == FALSE

\* index.ts 134: key.type !== "ed25519"
KeyTypeRejected(reply) == reply.type # "ed25519"

\* The loop body up to the key lookup (index.ts 117-128): an attestation
\* outside the allow-list is skipped, for any other the key is fetched
LoopStep ==
    /\ pc = "loop"
    /\ response.attestations.present
    /\ idx < Len(response.attestations.list)
    /\ LET att == WithIdentity(response.attestations.list[idx + 1],
                               client.identities, idx)
       IN /\ response' =
                [response EXCEPT !.attestations.list[idx + 1] = att]
          /\ IF ~IsAllowed(client.identities, att)
             THEN /\ verdicts' = Append(verdicts, "unauthorized")
                  /\ idx' = idx + 1
                  /\ pc' = "loop"
                  /\ UNCHANGED lookups
             ELSE /\ lookups' = Append(lookups, idx)
                  /\ pc' = "await_key"
                  /\ UNCHANGED <<verdicts, idx>>
    /\ KeepProofLocals
    /\ UNCHANGED <<cur, other, config, client, method, params, proverCalls, primarySent,
                   contentHashes, validAttestations, lastKey, isValid,
                   outcome>>

\* The key lookup ends and the loop body finishes (index.ts 126-150)
KeyReply ==
    /\ pc = "await_key"
    /\ LET att == response.attestations.list[idx + 1]
       IN \E reply \in KeyReplies(att.identity) :
            /\ lastKey' = reply
            /\ IF publicKeyFromIdentityThrows(reply)
               THEN /\ verdicts' = Append(verdicts, "unresolved")
                    /\ idx' = idx + 1
                    /\ pc' = "loop"
                    /\ UNCHANGED <<validAttestations, outcome>>
               ELSE IF parseKeyThrows(reply)
               THEN /\ Fail(Thrown("KeyParseError"))
                    /\ UNCHANGED <<verdicts, idx, validAttestations>>
               ELSE IF KeyTypeRejected(reply)
               THEN /\ Fail(Thrown(KeyTypeMessage))
                    /\ UNCHANGED <<verdicts, idx, validAttestations>>
               ELSE LET ok == verifyAttestation(att, reply.A, contentHashes)
                    IN /\ validAttestations' =
                           IF ok THEN Append(validAttestations, att)
                           ELSE validAttestations
                       /\ verdicts' =
                           Append(verdicts, IF ok THEN "valid" ELSE "invalid")
                       /\ idx' = idx + 1
                       /\ pc' = "loop"
                       /\ UNCHANGED outcome
    /\ KeepProofLocals
    /\ UNCHANGED <<cur, other, config, client, method, params, proverCalls, primarySent,
                   response, contentHashes, lookups, isValid>>

\* variant: the threshold comparison is off by one
ThresholdMetOffByOne(valid, minimum) == Len(valid) >= minimum - 1

\* variant: the attestations of one identity count once
ThresholdMetDistinct(valid, minimum) ==
    Cardinality({valid[j].identity : j \in 1..Len(valid)}) >= minimum

\* index.ts 152
ThresholdMet(valid, minimum) == Len(valid) >= minimum

\* variant: the error object is thrown before isValid is looked at
ReleaseErrorFirst(ok, resp) ==
    IF Truthy(resp.error) THEN ThrownRpcError("primary", resp.error)
    ELSE IF ~ok THEN Thrown(ThresholdMessage)
    ELSE Returned(resp.result)

\* index.ts 92-106: what request() does with isValid
Release(ok, resp) ==
    IF ~ok THEN Thrown(ThresholdMessage)
    ELSE IF Truthy(resp.error) THEN ThrownRpcError("primary", resp.error)
    ELSE Returned(resp.result)

\* verifyAttestations returns and request() ends (index.ts 152, 90-106)
Return ==
    /\ pc = "loop"
    /\ idx = Len(response.attestations.list)
    /\ isValid' = ThresholdMet(validAttestations,
                               client.minimumRequiredAttestations)
    /\ outcome' = Release(isValid', response)
    /\ pc' = "done"
    /\ KeepProofLocals
    /\ UNCHANGED <<cur, other, config, client, method, params, proverCalls, primarySent,
                   response, contentHashes, idx, validAttestations, lookups,
                   lastKey, verdicts>>

PrimaryReturns == \E resp \in FlowResponses : Receive(resp)

Next ==
    \/ Request
    \/ ProverFails
    \/ BlockNumberReturns
    \/ BlockReturns
    \/ AccessListReturns
    \/ ProofReturns
    \/ AccountProofLoaded
    \/ AccountGetReturns
    \/ StorageProofLoaded
    \/ StorageGetReturns
    \/ PrimaryFails
    \/ PrimaryReturns
    \/ LoopStep
    \/ KeyReply
    \/ Return

Spec == Init /\ [][Next]_vars

(***************************************************************************)
(* The attestation pass on its own: a client without prover, and responses *)
(* drawn from VerifyResponses.                                             *)
(***************************************************************************)
InitVerify ==
    InitWith({c \in Configs : ~c.hasProver}, {"eth_getLogs"})

ResponseArrives == \E resp \in VerifyResponses : Receive(resp)

NextVerify ==
    \/ Request
    \/ ResponseArrives
    \/ LoopStep
    \/ KeyReply
    \/ Return

SpecVerify == InitVerify /\ [][NextVerify]_vars

(***************************************************************************)
(* Two request() calls on one client.  Each action above is the run of one *)
(* call from one await to the next; between two such runs the event loop   *)
(* may resume the other call.  The locals of the suspended call are held   *)
(* in other; the client fields are the only state the calls share.         *)
(***************************************************************************)
\* the parameters and locals of the running call (index.ts 66-153, 244-311)
CallState ==
    [method |-> method, params |-> params, pc |-> pc,
     proverCalls |-> proverCalls, blockNumber |-> blockNumber,
     stateRoot |-> stateRoot, accessList |-> accessList, proof |-> proof,
     keyIdx |-> keyIdx, primarySent |-> primarySent, response |-> response,
     contentHashes |-> contentHashes, idx |-> idx,
     validAttestations |-> validAttestations, lookups |-> lookups,
     lastKey |-> lastKey, verdicts |-> verdicts, isValid |-> isValid,
     outcome |-> outcome]

\* variant: validAttestations is kept on the client and shared by the calls
LoadCallSharedValid(r) ==
    /\ method' = r.method /\ params' = r.params /\ pc' = r.pc
    /\ proverCalls' = r.proverCalls /\ blockNumber' = r.blockNumber
    /\ stateRoot' = r.stateRoot /\ accessList' = r.accessList
    /\ proof' = r.proof /\ keyIdx' = r.keyIdx
    /\ primarySent' = r.primarySent
    /\ response' = r.response /\ contentHashes' = r.contentHashes
    /\ idx' = r.idx /\ validAttestations' = validAttestations
    /\ lookups' = r.lookups /\ lastKey' = r.lastKey
    /\ verdicts' = r.verdicts /\ isValid' = r.isValid
    /\ outcome' = r.outcome

\* a suspended call resumes with the locals it was suspended with
LoadCall(r) ==
    /\ method' = r.method /\ params' = r.params /\ pc' = r.pc
    /\ proverCalls' = r.proverCalls /\ blockNumber' = r.blockNumber
    /\ stateRoot' = r.stateRoot /\ accessList' = r.accessList
    /\ proof' = r.proof /\ keyIdx' = r.keyIdx
    /\ primarySent' = r.primarySent
    /\ response' = r.response /\ contentHashes' = r.contentHashes
    /\ idx' = r.idx /\ validAttestations' = r.validAttestations
    /\ lookups' = r.lookups /\ lastKey' = r.lastKey
    /\ verdicts' = r.verdicts /\ isValid' = r.isValid
    /\ outcome' = r.outcome

\* the running call is at an await (or has ended) and the event loop turns
\* to the other call
Switch ==
    /\ other.pc # "none"
    /\ cur' = 3 - cur
    /\ other' = CallState
    /\ LoadCall(other)
    /\ UNCHANGED <<config, client>>

\* clients of the two-call specification
TwoConfigs ==
    {c \in Configs : /\ c.identities = <<"A", "B">>
                     /\ ~c.hasMinimum}

\* prover replies of the two-call specification: one block and state root,
\* an empty access list or one entry with one storage key, and a proof that
\* holds, one whose account node is at another root, one that lacks the
\* storage key
TwoAccessLists ==
    {<<>>, <<[address |-> "a1", storageKeys |-> <<1>>]>>}

TwoProofReplies ==
    {[accountProof |-> [root |-> "r1", keys |-> {"a1"}],
      storageProof |-> <<[root |-> "s1", keys |-> {1}]>>,
      storageHash |-> "s1"],
     [accountProof |-> [root |-> "r2", keys |-> {"a1"}],
      storageProof |-> <<[root |-> "s1", keys |-> {1}]>>,
      storageHash |-> "s1"],
     [accountProof |-> [root |-> "r1", keys |-> {"a1"}],
      storageProof |-> <<[root |-> "s1", keys |-> {}]>>,
      storageHash |-> "s1"]}

\* responses of the two-call specification: a result or an error, with at
\* most one attestation: valid(A), invalid-signature(B), or one without
\* identity that A signed
TwoAtts(c) ==
    LET d == FirstDigest(c)
    IN FlowAtts(c) \cup {Single("", d, Sign("A", d))}

TwoResponses ==
    UNION {{MkResponse(c, List(<<>>))} \cup
           {MkResponse(c, List(<<a>>)) : a \in TwoAtts(c)} :
            c \in {<<JValue("v1"), JUndefined>>, <<JUndefined, JValue("e1")>>}}

\* both calls are about to start, each with a method of its own
InitTwo ==
    /\ InitCallWith(TwoConfigs, Methods)
    /\ cur = 1
    /\ \E m \in Methods : other = [CallState EXCEPT !.method = m]

BlockNumberReturnsTwo == BlockNumberReturnsIn({MaxBlock})
BlockReturnsTwo == BlockReturnsIn({"r1"})
AccessListReturnsTwo == AccessListReturnsIn(TwoAccessLists)
ProofReturnsTwo == ProofReturnsIn(TwoProofReplies)
ResponseArrivesTwo == \E resp \in TwoResponses : Receive(resp)

NextTwo ==
    \/ Request
    \/ ProverFails
    \/ BlockNumberReturnsTwo
    \/ BlockReturnsTwo
    \/ AccessListReturnsTwo
    \/ ProofReturnsTwo
    \/ AccountProofLoaded
    \/ AccountGetReturns
    \/ StorageProofLoaded
    \/ StorageGetReturns
    \/ PrimaryFails
    \/ ResponseArrivesTwo
    \/ LoopStep
    \/ KeyReply
    \/ Return
    \/ Switch

SpecTwo == InitTwo /\ [][NextTwo]_vars

(***************************************************************************)
(* Vocabulary of the properties.                                           *)
(***************************************************************************)
Atts == response.attestations.list

Threshold == client.minimumRequiredAttestations

\* how many processed attestations left the loop body with verdict v
CountVerdicts(v) == Cardinality({k \in 1..Len(verdicts) : verdicts[k] = v})

\* request() handed the caller the result or the primary endpoint's error
Released ==
    \/ outcome.kind = "returned"
    \/ outcome.kind = "RpcError" /\ outcome.origin = "primary"

\* verifyAttestations ran to its return statement: the content was hashed
\* and every attestation of the response went through the loop
PassReturned ==
    /\ pc = "done"
    /\ response.attestations.present
    /\ Coalesce(response.result, response.error).kind # "undefined"
    /\ Len(verdicts) = Len(Atts)

InAllowList(id) ==
    \E j \in 1..Len(client.identities) : client.identities[j] = id

\* the identity attestation k (1-based) has once the fallback is applied
EffectiveIdentity(k) ==
    IF Atts[k].identity # "" THEN Atts[k].identity
    ELSE IF k <= Len(client.identities) THEN client.identities[k]
    ELSE ""

\* the key of attestation k was fetched, parsed and accepted
Resolved(k) == k <= Len(verdicts) /\ verdicts[k] \in {"valid", "invalid"}

\* the attestation carries msgs and signatures and no msg/signature pair
BatchShaped(a) ==
    /\ a.msgs.present /\ a.signatures.present
    /\ a.msg = NoMsg /\ a.signature = NoSig

\* the attestation is handled by the msg/signature branch
SingleMode(a) ==
    /\ ~(a.msgs.present /\ a.msgs.list # <<>> /\ a.signatures.present)
    /\ a.msg # NoMsg
    /\ a.signature # NoSig

\* every content digest appears in msgs
Covered(a) ==
    \A j \in 1..Len(contentHashes) :
        \E i \in 1..Len(a.msgs.list) : a.msgs.list[i] = contentHashes[j]

\* signature sg is a 64-byte signature of message m by the key of a
SignedBy(a, m, sg) == sg.kind = "sig" /\ sg.by = a.identity /\ sg.over = m

\* every (msgs[k], signatures[k]) pair verifies against the key of a
PairsVerify(a) ==
    \A i \in 1..Len(a.msgs.list) :
        /\ i <= Len(a.signatures.list)
        /\ SignedBy(a, a.msgs.list[i], a.signatures.list[i])

\* the proof held in the state proves the first access-list entry
ProofHolds ==
    /\ accessList # <<>>
    /\ proof.accountProof.root = stateRoot
    /\ accessList[1].address \in proof.accountProof.keys
    /\ \A i \in 1..Len(accessList[1].storageKeys) :
        /\ i <= Len(proof.storageProof)
        /\ \E k \in 1..i :
            /\ proof.storageProof[k].root = proof.storageHash
            /\ accessList[1].storageKeys[i] \in proof.storageProof[k].keys

\* the lookup lastKey is the answer to, as an index into lookups
LastAnswered == IF pc = "await_key" THEN Len(lookups) - 1 ELSE Len(lookups)

(***************************************************************************)
(* C1.  request() releases the result, or the primary endpoint's error as  *)
(* RpcError, only if the attestation pass over that response returned with *)
(* at least minimumRequiredAttestations valid attestations; when the pass  *)
(* returns with fewer, the call ends with the threshold error and          *)
(* releases nothing.                                                       *)
(***************************************************************************)
C1_ReleaseOnlyIfThresholdMet ==
    /\ Released => PassReturned /\ CountVerdicts("valid") >= Threshold
    /\ PassReturned /\ CountVerdicts("valid") < Threshold =>
            outcome = Thrown(ThresholdMessage)

C1_Witness ==
    /\ pc = "done" /\ outcome.kind = "returned"
    /\ Threshold = 2 /\ CountVerdicts("valid") = 2
    /\ CountVerdicts("invalid") = 0

(***************************************************************************)
(* C2.  With no key of another type than ed25519 met, verifyAttestations   *)
(* returns true if and only if the number of allow-listed, key-resolvable  *)
(* attestations that pass verifyAttestation reaches the threshold, which   *)
(* is 1 when the configuration names none.                                 *)
(***************************************************************************)
C2_ReturnsTrueIffCount ==
    LET T == IF config.hasMinimum THEN config.minimumRequiredAttestations
             ELSE 1
    IN (/\ pc = "done"
        /\ response.attestations.present
        /\ Coalesce(response.result, response.error).kind # "undefined"
        /\ outcome.error # KeyTypeMessage)
       => ((PassReturned /\ isValid) <=> CountVerdicts("valid") >= T)

(***************************************************************************)
(* C3.  An attestation whose identity, after the positional fallback, is   *)
(* not in the allow-list is never counted, whatever it carries, and no key *)
(* is looked up for it.                                                    *)
(***************************************************************************)
C3_UnauthorizedNeverCounted ==
    /\ \A k \in 1..Len(Atts) :
        ~InAllowList(EffectiveIdentity(k)) =>
            /\ \A j \in 1..Len(lookups) : lookups[j] # k - 1
            /\ k <= Len(verdicts) => verdicts[k] = "unauthorized"
    /\ \A j \in 1..Len(validAttestations) :
        InAllowList(validAttestations[j].identity)
    /\ Len(validAttestations) = CountVerdicts("valid")

C3_Witness ==
    /\ pc = "done"
    /\ \E k \in 1..Len(verdicts) :
        /\ Atts[k].identity = "X"
        /\ SingleMode(Atts[k])
        /\ SignedBy(Atts[k], Atts[k].msg, Atts[k].signature)
        /\ Includes(contentHashes, Atts[k].msg)
        /\ verdicts[k] = "unauthorized"
    /\ CountVerdicts("valid") >= 1

(***************************************************************************)
(* C4.  In light-client mode the request goes to rpcUrl only from a        *)
(* completed proof verification whose proof holds; a prover call that      *)
(* fails, an absent account, an absent storage key or a proof for another  *)
(* root ends the call with an error, with no request sent to rpcUrl and no *)
(* attestation examined.                                                   *)
(***************************************************************************)
C4_ProofFailureStopsRequest ==
    [][/\ (UsesProver /\ primarySent' > primarySent) =>
            /\ pc \in {"t_accountGet", "t_storageGet"}
            /\ ProofHolds
            /\ Len(proverCalls) = 4
       /\ (pc \in ProverWaits \cup TrieWaits /\ pc' = "done") =>
            /\ outcome'.kind \in {"Error", "RpcError"}
            /\ primarySent' = 0
            /\ response' = NoResponse
            /\ lookups' = <<>>
            /\ verdicts' = <<>>
       /\ (pc \in TrieWaits /\ ~ProofHolds) =>
            pc' \in TrieWaits \cup {"done"}]_vars

C4_Witness ==
    /\ pc = "done"
    /\ outcome = Thrown("Account not found in state trie")
    /\ Len(proverCalls) = 4
    /\ primarySent = 0
    /\ response = NoResponse

(***************************************************************************)
(* C5.  As claimed: every RpcError request() throws carries an error       *)
(* object of a response whose attestation pass succeeded.                  *)
(***************************************************************************)
C5_RpcErrorOnlyAfterAttestation ==
    outcome.kind = "RpcError" => PassReturned /\ isValid

(***************************************************************************)
(* C5 as amended.  An RpcError carrying the error object of the response   *)
(* from rpcUrl is thrown only after the attestation pass over that         *)
(* response met the threshold, and that pass hashed the error object       *)
(* whenever the response had no result; an RpcError carrying a prover's    *)
(* error object is thrown by the proof verification, before any request    *)
(* to rpcUrl and without any attestation pass.                             *)
(***************************************************************************)
C5_PrimaryRpcErrorOnlyAfterAttestation ==
    /\ (outcome.kind = "RpcError" /\ outcome.origin = "primary") =>
        /\ PassReturned
        /\ CountVerdicts("valid") >= Threshold
        /\ outcome.value = response.error
        /\ response.result.kind \in {"undefined", "null"} =>
                contentHashes = <<sha256hex(response.error.text)>>
    /\ (outcome.kind = "RpcError" /\ outcome.origin = "prover") =>
        /\ config.hasProver /\ method = "eth_call"
        /\ outcome.value = ProverError
        /\ primarySent = 0
        /\ verdicts = <<>>

C5_Witness ==
    /\ outcome.kind = "RpcError" /\ outcome.origin = "primary"
    /\ response.result = JUndefined
    /\ CountVerdicts("valid") >= 1
    /\ CountVerdicts("invalid") >= 1

(***************************************************************************)
(* C6.  An attestation handled in single mode whose msg is not one of the  *)
(* content digests is never counted, even when its signature is a correct  *)
(* signature by the identity's key over that msg.                          *)
(***************************************************************************)
C6_TamperedDigestNeverCounted ==
    \A k \in 1..Len(verdicts) :
        (SingleMode(Atts[k]) /\ ~Includes(contentHashes, Atts[k].msg)) =>
            /\ verdicts[k] # "valid"
            /\ \A j \in 1..Len(validAttestations) :
                validAttestations[j] # Atts[k]

C6_Witness ==
    \E k \in 1..Len(verdicts) :
        /\ SingleMode(Atts[k])
        /\ Atts[k].msg = Foreign
        /\ contentHashes # <<>>
        /\ SignedBy(Atts[k], Atts[k].msg, Atts[k].signature)
        /\ verdicts[k] = "invalid"

(***************************************************************************)
(* C7.  As claimed: an attestation carrying msgs and signatures whose key  *)
(* resolved is counted if and only if every content digest appears in msgs *)
(* and every (msgs[k], signatures[k]) pair verifies.                       *)
(***************************************************************************)
C7_BatchValidIffCoveredAndAllPairs ==
    \A k \in 1..Len(verdicts) :
        (BatchShaped(Atts[k]) /\ Resolved(k)) =>
            (verdicts[k] = "valid" <=>
                (Covered(Atts[k]) /\ PairsVerify(Atts[k])))

(***************************************************************************)
(* C7 as amended.  An attestation carrying signatures and a msgs array     *)
(* with at least one entry, whose key resolved, is counted if and only if  *)
(* every content digest appears in msgs and every (msgs[k], signatures[k]) *)
(* pair verifies; entries of msgs outside the content digests are          *)
(* tolerated, and their pairs must verify too.  An attestation whose msgs  *)
(* is empty and that has no msg/signature pair is never counted, also when *)
(* the content has no digest at all.                                       *)
(***************************************************************************)
C7_NonEmptyBatchValidIffCoveredAndAllPairs ==
    \A k \in 1..Len(verdicts) :
        (BatchShaped(Atts[k]) /\ Resolved(k)) =>
            IF Atts[k].msgs.list # <<>>
            THEN verdicts[k] = "valid" <=>
                    (Covered(Atts[k]) /\ PairsVerify(Atts[k]))
            ELSE verdicts[k] = "invalid"

C7_Witness ==
    \E k \in 1..Len(verdicts) :
        /\ BatchShaped(Atts[k])
        /\ Len(contentHashes) = 2
        /\ Includes(Atts[k].msgs.list, Foreign)
        /\ verdicts[k] = "valid"

(***************************************************************************)
(* C8.  A key lookup that gives a parsed key of another type than ed25519  *)
(* ends the whole pass with an error: request() releases nothing, however  *)
(* many attestations were already counted.                                 *)
(***************************************************************************)
C8_WrongKeyTypeAbortsPass ==
    (/\ lastKey.fetch = "resolves" /\ lastKey.status = 200
     /\ lastKey.parses /\ lastKey.type # "ed25519") =>
        /\ pc = "done"
        /\ outcome = Thrown(KeyTypeMessage)
        /\ ~isValid

C8_Witness ==
    /\ lastKey.parses /\ lastKey.type = "rsa"
    /\ pc = "done"
    /\ CountVerdicts("valid") >= Threshold
    /\ Len(verdicts) + 1 < Len(Atts)

(***************************************************************************)
(* C9.  A key that cannot be resolved (the lookup does not succeed, or the *)
(* text does not parse) only excludes its attestation: the attestation is  *)
(* skipped, the pass goes on, and the call is decided by the count.        *)
(***************************************************************************)
C9_ResolutionFailureIsLocal ==
    (/\ LastAnswered >= 1
     /\ \/ lastKey.fetch = "rejects"
        \/ lastKey.status # 200
        \/ ~lastKey.parses) =>
        LET k == lookups[LastAnswered] + 1
        IN /\ k <= Len(verdicts)
           /\ verdicts[k] = "unresolved"
           /\ pc = "done" => PassReturned

(***************************************************************************)
(* C10.  The prover is contacted in a request() call if and only if        *)
(* proverUrl is configured and the method is eth_call.  With proverUrl     *)
(* left out the client holds no prover URL, the request goes to rpcUrl at  *)
(* once, and a returned attestation pass alone decides the release.        *)
(***************************************************************************)
C10_ProverOnlyForConfiguredEthCall ==
    /\ pc = "start" => proverCalls = <<>>
    /\ pc # "start" =>
        (proverCalls # <<>> <=> (config.hasProver /\ method = "eth_call"))
    /\ ~config.hasProver =>
        /\ client.proverUrl = NullUrl
        /\ proverCalls = <<>>
        /\ pc # "start" => primarySent = 1
        /\ PassReturned =>
            (Released <=> CountVerdicts("valid") >= Threshold)

C10_Witness ==
    /\ ~config.hasProver /\ method = "eth_call"
    /\ pc = "done" /\ outcome.kind = "returned"
    /\ proverCalls = <<>>

\* the prover methods in the order verifyStatelessProof calls them
ProverOrder == <<"eth_blockNumber", "eth_getBlockByNumber",
                 "eth_createAccessList", "eth_getProof">>

\* how many prover calls have been sent when the call waits at position p
CallsSentAt(p) ==
    CASE p = "p_blockNumber" -> 1
      [] p = "p_getBlock" -> 2
      [] p = "p_accessList" -> 3
      [] p = "p_getProof" -> 4

(***************************************************************************)
(* C11.  The prover calls of one verification are eth_blockNumber,         *)
(* eth_getBlockByNumber, eth_createAccessList, eth_getProof in this order, *)
(* each sent by the step in which the previous one returned a result, so   *)
(* that one call at most is outstanding; the number eth_blockNumber        *)
(* returned is the block of eth_getBlockByNumber and of eth_getProof; a    *)
(* call that fails ends the run and no further call is sent.               *)
(***************************************************************************)
C11_ProverCallsInOrder ==
    [][/\ Len(proverCalls') <= 4
       /\ \A k \in 1..Len(proverCalls') :
            proverCalls'[k].method = ProverOrder[k]
       /\ pc' \in ProverWaits => Len(proverCalls') = CallsSentAt(pc')
       /\ proverCalls' # proverCalls =>
            /\ pc \in {"start", "p_blockNumber", "p_getBlock", "p_accessList"}
            /\ pc' \in ProverWaits
            /\ Len(proverCalls') = Len(proverCalls) + 1
            /\ SubSeq(proverCalls', 1, Len(proverCalls)) = proverCalls
            /\ outcome' = Pending
       /\ (pc = "p_blockNumber" /\ pc' = "p_getBlock") =>
            /\ blockNumber' \in 1..MaxBlock
            /\ proverCalls'[2].params[1] = blockNumber'
       /\ pc' \in {"p_getBlock", "p_accessList", "p_getProof"} =>
            proverCalls'[2].params[1] = blockNumber'
       /\ Len(proverCalls') = 4 =>
            proverCalls'[4].params[3] = proverCalls'[2].params[1]
       /\ (pc \in ProverWaits /\ pc' = "done") =>
            /\ proverCalls' = proverCalls
            /\ outcome'.kind \in {"Error", "RpcError"}
       /\ pc \in TrieWaits \cup {"await_response", "loop", "await_key",
                              "done"} =>
            proverCalls' = proverCalls]_vars

C11_Witness ==
    /\ pc = "p_getProof"
    /\ blockNumber = MaxBlock
    /\ Len(proverCalls) = 4
    /\ proverCalls[4].params[3] = MaxBlock

(***************************************************************************)
(* C12.  The trie checks succeed only if the address of the first access-  *)
(* list entry is in the state trie built from accountProof at stateRoot    *)
(* and every storage key of the entry is in the storage trie at            *)
(* storageHash.  The account is checked first: when it is absent the run   *)
(* ends with the account error whatever the storage proofs hold.  With the *)
(* account present, an absent storage key ends the run with an error, and  *)
(* an entry with no storage key succeeds.                                  *)
(***************************************************************************)
C12_ProofSucceedsOnlyIfAllPresent ==
    [][(pc \in TrieWaits) =>
        LET entry == accessList[1]
            accountOk ==
                /\ proof.accountProof.root = stateRoot
                /\ entry.address \in proof.accountProof.keys
            KeyOk(i) ==
                /\ i <= Len(proof.storageProof)
                /\ \E k \in 1..i :
                    /\ proof.storageProof[k].root = proof.storageHash
                    /\ entry.storageKeys[i] \in proof.storageProof[k].keys
            keysOk == \A i \in 1..Len(entry.storageKeys) : KeyOk(i)
        IN /\ pc' = "await_response" => (accountOk /\ keysOk)
           /\ pc \in {"t_storageLoad", "t_storageGet"} =>
                /\ accountOk
                /\ keyIdx < Len(entry.storageKeys)
                /\ \A i \in 1..keyIdx : KeyOk(i)
           /\ (pc = "t_accountGet" /\ ~accountOk) =>
                /\ pc' = "done"
                /\ outcome'.kind = "Error"
                /\ outcome'.error \in {"Account not found in state trie",
                                       MissingNodeMessage}
                /\ primarySent' = 0
           /\ (pc = "t_storageGet" /\ ~KeyOk(keyIdx + 1)) =>
                /\ pc' = "done"
                /\ outcome' = Thrown("Storage value not found")
                /\ primarySent' = 0
           /\ (accountOk /\ ~keysOk) => pc' \in TrieWaits \cup {"done"}
           /\ (/\ pc = "t_accountGet"
               /\ accountOk
               /\ entry.storageKeys = <<>>) =>
                /\ pc' = "await_response"
                /\ primarySent' = 1]_vars

C12_Witness ==
    /\ pc = "await_response"
    /\ Len(proverCalls) = 4
    /\ Len(proverCalls[4].params[2]) >= 2
    /\ primarySent = 1

(***************************************************************************)
(* C15.  One eth_getProof at most is sent in a run, and it asks for the    *)
(* address and the storage keys of the first access-list entry; whether    *)
(* the verification succeeds is decided by that entry and its proof alone, *)
(* whatever entries follow it in the list.                                 *)
(***************************************************************************)
C15_OnlyFirstEntryProved ==
    [][/\ Cardinality({k \in 1..Len(proverCalls') :
                        proverCalls'[k].method = "eth_getProof"}) <= 1
       /\ (pc = "p_accessList" /\ pc' = "p_getProof") =>
            /\ proverCalls'[4].method = "eth_getProof"
            /\ proverCalls'[4].params[1] = accessList'[1].address
            /\ proverCalls'[4].params[2] = accessList'[1].storageKeys
       /\ (pc \in TrieWaits /\ pc' \notin TrieWaits) =>
            /\ pc' = "await_response" <=> ProofHolds
            /\ pc' = "done" <=> ~ProofHolds]_vars

C15_Witness ==
    /\ pc = "t_storageGet"
    /\ keyIdx + 1 = Len(accessList[1].storageKeys)
    /\ Len(accessList) = 2
    /\ Len(proverCalls) = 4
    /\ proverCalls[4].params[1] = accessList[1].address
    /\ accessList[2].address # accessList[1].address
    /\ accessList[2].address \notin proof.accountProof.keys
    /\ ProofHolds

(***************************************************************************)
(* C20.  In light-client mode an empty access list ends request() with an  *)
(* error: no eth_getProof is sent, nothing is released, and the request    *)
(* never goes to rpcUrl.  A request that did go to rpcUrl in that mode     *)
(* followed an eth_getProof for an entry of a non-empty access list.       *)
(***************************************************************************)
C20_EmptyAccessListFails ==
    /\ outcome = Thrown(NoFirstEntryMessage) =>
        /\ pc = "done"
        /\ UsesProver
        /\ Len(proverCalls) = 3
        /\ primarySent = 0
        /\ response = NoResponse
        /\ ~Released
    /\ pc \in {"p_getProof"} \cup TrieWaits => accessList # <<>>
    /\ (UsesProver /\ primarySent > 0) =>
        /\ Len(proverCalls) = 4
        /\ proverCalls[4].method = "eth_getProof"
        /\ \E al \in AccessLists :
            al # <<>> /\ proverCalls[4].params[1] = al[1].address

C20_Witness ==
    /\ pc = "done"
    /\ outcome = Thrown(NoFirstEntryMessage)
    /\ method = "eth_call"
    /\ Len(proverCalls) = 3
    /\ primarySent = 0

(***************************************************************************)
(* C19.  What request() releases is the content that was attested: the     *)
(* digests the attestations were checked against are the digests of the    *)
(* returned result, or of the error object the RpcError carries.           *)
(***************************************************************************)
C19_ReleasedIsAttestedContent ==
    Released =>
        /\ ~hashContentThrows(outcome.value)
        /\ contentHashes = hashContent(outcome.value)

\* attestation a, counted, is signed by its identity's key: its msg and
\* signature in the msg/signature branch, every msgs[i] with signatures[i]
\* in the other
SignedByItsIdentity(a) ==
    IF SingleMode(a) THEN SignedBy(a, a.msg, a.signature) ELSE PairsVerify(a)

(***************************************************************************)
(* C13.  An attestation at position i (0-based) that carries no identity   *)
(* gets identities[i] written into it and the key of that identity is      *)
(* looked up; it is counted only if that key verifies it.  When i is past  *)
(* the end of the allow-list it keeps no identity, no key is looked up and *)
(* it is not counted.                                                      *)
(***************************************************************************)
C13_PositionalFallback ==
    [][/\ (pc = "loop" /\ idx < Len(Atts) /\ Atts[idx + 1].identity = "") =>
            IF idx + 1 <= Len(client.identities)
            THEN /\ Atts' = [Atts EXCEPT
                        ![idx + 1].identity = client.identities[idx + 1]]
                 /\ pc' = "await_key"
                 /\ lookups' = Append(lookups, idx)
                 /\ UNCHANGED <<verdicts, validAttestations>>
            ELSE /\ Atts' = Atts
                 /\ verdicts' = Append(verdicts, "unauthorized")
                 /\ pc' = "loop"
                 /\ UNCHANGED <<lookups, validAttestations>>
       /\ (pc = "await_key" /\ Len(validAttestations') >
                                  Len(validAttestations)) =>
            /\ lastKey'.type = "ed25519"
            /\ lastKey'.A = Atts[idx + 1].identity
            /\ Atts[idx + 1].identity = EffectiveIdentity(idx + 1)
            /\ SignedByItsIdentity(Atts[idx + 1])]_vars

\* three attestations without identity, each signed by B, against the
\* allow-list <<A, B>>: the first was checked with the key of A, the second
\* with the key of B, the third has no identity
C13_Witness ==
    /\ pc = "done"
    /\ client.identities = <<"A", "B">>
    /\ Len(Atts) = 3
    /\ \A k \in 1..3 : Atts[k].signature = Sign("B", Atts[k].msg)
    /\ Atts[1].identity = "A" /\ Atts[2].identity = "B"
    /\ Atts[3].identity = ""
    /\ verdicts = <<"invalid", "valid", "unauthorized">>

\* how many of the first n entries of attestation sequence s name id
CountOf(s, n, id) == Cardinality({j \in 1..n : s[j].identity = id})

(***************************************************************************)
(* C14.  Valid attestations are counted one by one, with no look at        *)
(* whether their identity was counted before: the pass returns true iff    *)
(* the number of valid attestations, repeated identities included, reaches *)
(* the threshold.                                                          *)
(***************************************************************************)
C14_NoDeduplication ==
    /\ Len(validAttestations) = CountVerdicts("valid")
    /\ \A id \in {"A", "B", "C", "X"} :
        CountOf(validAttestations, Len(validAttestations), id) =
            Cardinality({k \in 1..Len(verdicts) :
                            verdicts[k] = "valid" /\ Atts[k].identity = id})
    /\ PassReturned =>
        (isValid <=> CountVerdicts("valid") >= Threshold)

C14_Witness ==
    /\ PassReturned
    /\ Threshold = 2
    /\ Len(Atts) = 2
    /\ Atts[1] = Atts[2]
    /\ Atts[1].identity = "A"
    /\ verdicts = <<"valid", "valid">>
    /\ Len(validAttestations) = 2
    /\ isValid
    /\ outcome.kind = "returned"

(***************************************************************************)
(* C16.  As claimed: an attestation whose msgs and signatures differ in    *)
(* length, and which has no msg/signature pair, is never counted.          *)
(***************************************************************************)
C16_LengthMismatchNeverCounted ==
    \A k \in 1..Len(verdicts) :
        (/\ BatchShaped(Atts[k])
         /\ Len(Atts[k].msgs.list) # Len(Atts[k].signatures.list)) =>
            verdicts[k] # "valid"

(***************************************************************************)
(* C16, amended.  Such an attestation is never counted when signatures is  *)
(* the shorter array.  When signatures is the longer one, the signatures   *)
(* past the end of msgs are not looked at: with its key resolved, the      *)
(* attestation is counted iff msgs is non-empty, holds every content       *)
(* digest, and each msgs[k] verifies against signatures[k].                *)
(***************************************************************************)
C16_ShorterNeverCountedLongerByPairs ==
    \A k \in 1..Len(verdicts) :
        BatchShaped(Atts[k]) =>
            /\ Len(Atts[k].signatures.list) < Len(Atts[k].msgs.list) =>
                    verdicts[k] # "valid"
            /\ (/\ Len(Atts[k].signatures.list) > Len(Atts[k].msgs.list)
                /\ Resolved(k)) =>
                    (verdicts[k] = "valid" <=>
                        /\ Atts[k].msgs.list # <<>>
                        /\ Covered(Atts[k])
                        /\ PairsVerify(Atts[k]))

C16_Witness ==
    \E k \in 1..Len(verdicts) :
        /\ BatchShaped(Atts[k])
        /\ Len(Atts[k].signatures.list) = Len(Atts[k].msgs.list) + 1
        /\ verdicts[k] = "valid"
        /\ Len(validAttestations) = 1

\* content digest j is a message of attestation a that a signature of a
\* verifies
DigestVerifiedBy(a, j) ==
    IF SingleMode(a)
    THEN a.msg = contentHashes[j] /\ SignedBy(a, a.msg, a.signature)
    ELSE \E i \in 1..Len(a.msgs.list) :
            /\ a.msgs.list[i] = contentHashes[j]
            /\ i <= Len(a.signatures.list)
            /\ SignedBy(a, a.msgs.list[i], a.signatures.list[i])

(***************************************************************************)
(* C18.  As claimed: every counted attestation covers the whole content,   *)
(* each content digest being a message of the attestation whose signature  *)
(* was verified.                                                           *)
(***************************************************************************)
C18_CountedCoversWholeContent ==
    \A k \in 1..Len(verdicts) :
        verdicts[k] = "valid" =>
            \A j \in 1..Len(contentHashes) : DigestVerifiedBy(Atts[k], j)

\* The outcome of a request() call that runs alone on client cl, receives
\* response resp (at most one attestation) and, if it looks a key up, gets
\* the reply key.
AloneOutcome(cl, resp, key) ==
    LET content == Coalesce(resp.result, resp.error)
        T == cl.minimumRequiredAttestations
    IN IF hashContentThrows(content) \/ ~resp.attestations.present
       THEN Thrown("TypeError")
       ELSE IF resp.attestations.list = <<>>
       THEN Release(ThresholdMet(<<>>, T), resp)
       ELSE LET att == WithIdentity(resp.attestations.list[1],
                                    cl.identities, 0)
            IN IF ~IsAllowed(cl.identities, att)
                  \/ publicKeyFromIdentityThrows(key)
               THEN Release(ThresholdMet(<<>>, T), resp)
               ELSE IF parseKeyThrows(key) THEN Thrown("KeyParseError")
               ELSE IF KeyTypeRejected(key) THEN Thrown(KeyTypeMessage)
               ELSE IF verifyAttestation(att, key.A, hashContent(content))
               THEN Release(ThresholdMet(<<att>>, T), resp)
               ELSE Release(ThresholdMet(<<>>, T), resp)

\* call record r holds what a call running alone would hold
RunsAsAlone(r) ==
    LET light == client.proverUrl # NullUrl /\ r.method = "eth_call"
        inProof == r.pc \in ProverWaits \cup TrieWaits
    IN
    /\ r.pc # "done" => r.outcome = Pending
    /\ (r.pc = "done" /\ r.response # NoResponse) =>
        r.outcome = AloneOutcome(client, r.response, r.lastKey)
    /\ (r.pc = "done" /\ r.response = NoResponse) =>
        /\ r.outcome.kind \in {"Error", "RpcError"}
        /\ r.outcome.kind = "RpcError" => r.outcome.origin = "prover"
        /\ r.primarySent = 0 => light
        /\ r.verdicts = <<>> /\ r.lookups = <<>>
    /\ inProof => (light /\ r.primarySent = 0 /\ r.response = NoResponse)
    /\ r.proverCalls # <<>> <=> (light /\ r.pc # "start")
    /\ r.primarySent = 1 => (light <=> Len(r.proverCalls) = 4)
    /\ r.response # NoResponse => r.primarySent = 1
    /\ (r.pc \in {"await_response", "loop", "await_key"}) => r.primarySent = 1
    /\ r.pc \in TrieWaits =>
        /\ r.proverCalls[4].params[1] = r.accessList[1].address
        /\ r.proverCalls[4].params[3] = r.blockNumber
    /\ Len(r.validAttestations) =
        Cardinality({k \in 1..Len(r.verdicts) : r.verdicts[k] = "valid"})
    /\ \A j \in 1..Len(r.validAttestations) :
        Includes(r.response.attestations.list, r.validAttestations[j])

(***************************************************************************)
(* C17.  Two request() calls on one client, interleaved in any way at      *)
(* their awaits: each call ends as it would end running alone with the     *)
(* response and key reply it received, whatever the other call did in      *)
(* between, and no step changes the client fields rpcUrl, identities,      *)
(* minimumRequiredAttestations, proverUrl.                                 *)
(***************************************************************************)
C17_CallsDoNotInterfere ==
    [][/\ client' = client
       /\ config' = config
       /\ client' = createStatelessTransport(config')
       /\ RunsAsAlone(CallState)'
       /\ RunsAsAlone(other)'
       /\ cur' = cur => other' = other]_vars

\* one call has run from its start to its return while the other was
\* suspended inside its trie checks, before its request to rpcUrl
C17_Witness ==
    /\ pc = "done" /\ outcome.kind = "returned"
    /\ method = "eth_getLogs"
    /\ CountVerdicts("valid") = 1
    /\ other.pc = "t_storageGet"
    /\ other.method = "eth_call"
    /\ other.primarySent = 0
    /\ other.outcome = Pending

====
